---- MODULE Spec2Model ----
(***************************************************************************)
(* Heracles: the query layer of the dashboard server.                      *)
(*                                                                         *)
(*   - src/src/query/prom.rs    PromQueryConn (get_query, get_results)      *)
(*   - src/src/query/loki.rs    LokiConn (get_results)                      *)
(*   - src/src/query/logsql.rs  LogsqlConn (get_results)                    *)
(*   - src/src/dashboard.rs     span resolution, prom_query_data,           *)
(*                              loki_query_data                             *)
(*                                                                         *)
(* Text is a sequence of symbols: the word FILTERS is one symbol, a comma   *)
(* is one symbol, every other piece of text is a symbol that holds neither. *)
(* Instants and durations are integers in milliseconds.  Option<T> is a     *)
(* sequence: None is << >> and Some(x) is << x >>.                          *)
(***************************************************************************)
EXTENDS Integers, Sequences, FiniteSets, TLC

VARIABLES
    \* ---- PromQueryConn::get_query applied to one connector
    fq_query,      \* self.query, the template
    fq_filters,    \* self.filters: Option<HashMap<&str, &str>>
    fq_order,      \* the order in which filters.iter() visited the map
    fq_rendered,   \* filter_string when the loop over the filters ends
    fq_out,        \* the returned query
    fq_done,       \* get_query has returned
    \* ---- a normalizer applied to one backend answer
    nm_fn,         \* "prom", "loki" or "logsql"; "none" when no normalizer is called
    nm_in,         \* its argument: Data, LokiData or Vec<LogsqlResult>
    nm_meta,       \* the PlotMeta handed to prom_to_samples
    nm_out,        \* Some(what it returned), None before and after a panic
    nm_pc,         \* "off", "ready", "returned" or "panicked"
    \* ---- main
    args_validate, \* --validate
    args_offline,  \* --offline
    config,        \* what read_dashboard_list gave: None for an error, or Some(dashboards)
    main_pc,       \* where main stands; "off" when the process is not modelled
    dash_idx,      \* the dashboard the loop of main is at
    issued,        \* the queries validate has run, in order
    outcomes,      \* how each of them ended: "ok", "err" or "panic"
    \* ---- the clock
    now,           \* what Utc::now() returns, in milliseconds
    \* ---- configuration and request, fixed while a request is served
    dash_span,     \* Dashboard.span: Option<GraphSpan>
    panel_span,    \* Graph.span / LogStream.span: Option<GraphSpan>
    query_params,  \* the query parameters of the request: a map from name to value
    query_span,    \* the span of the request's query parameters
    req_filters,   \* the filters of the request
    query_type,    \* Graph.query_type / LogStream.query_type
    plots,         \* Graph.plots
    limit,         \* LogStream.limit
    \* ---- one request being served
    handler,       \* what is being served: "none", "graph", "log" or "logsql"
    pc,            \* where the handler stands
    conns,         \* the connectors built so far (PromQueryConn, LokiConn or LogsqlConn)
    built_at,      \* the instant each connector's span was resolved at
    sent,          \* the requests sent to the backends, in order
    sent_at,       \* the instant each request was built at
    answered,      \* the answers of the backends, in order
    data,          \* prom_query_data's `data`
    result         \* what the handler returned: None while it runs

fqvars == <<fq_query, fq_filters, fq_order, fq_rendered, fq_out, fq_done>>
nmvars == <<nm_fn, nm_in, nm_meta, nm_out, nm_pc>>
mainvars == <<args_validate, args_offline, config, main_pc, dash_idx, issued, outcomes>>
cfgvars == <<dash_span, panel_span, query_params, query_span, req_filters, query_type, plots, limit>>
reqvars == <<handler, pc, conns, built_at, sent, sent_at, answered, data, result>>

vars == <<fqvars, nmvars, mainvars, now, cfgvars, reqvars>>

(***************************************************************************)
(* Option                                                                  *)
(***************************************************************************)
None == << >>
Some(x) == << x >>
IsSome(o) == o # None
Unwrap(o) == o[1]

(***************************************************************************)
(* Bounds of the model                                                     *)
(***************************************************************************)
\* longest template handed to get_query, in symbols
MaxTemplateLen == 5

(***************************************************************************)
(* str::contains and str::replace on sequences of symbols                  *)
(***************************************************************************)
\* pat occurs in s at position i
MatchAt(s, pat, i) ==
    /\ i + Len(pat) - 1 <= Len(s)
    /\ \A j \in 1..Len(pat) : s[i + j - 1] = pat[j]

Contains(s, pat) == \E i \in 1..Len(s) : MatchAt(s, pat, i)

\* every non-overlapping match of pat, left to right, replaced by to
RECURSIVE ReplaceFrom(_, _, _, _)
ReplaceFrom(s, pat, to, i) ==
    IF i > Len(s) THEN << >>
    ELSE IF MatchAt(s, pat, i) THEN to \o ReplaceFrom(s, pat, to, i + Len(pat))
    ELSE << s[i] >> \o ReplaceFrom(s, pat, to, i + 1)

Replace(s, pat, to) == ReplaceFrom(s, pat, to, 1)

(***************************************************************************)
(* PromQueryConn::get_query                                                *)
(***************************************************************************)
FILTER_PLACEHOLDER == << "FILTERS" >>
FILTER_COMMA_PLACEHOLDER == << ",", "FILTERS" >>
FILTER_PLACEHOLDER_COMMA == << "FILTERS", "," >>

\* the loop over filters.iter(): `first` is bound once and never assigned,
\* so every iteration sees the value it is entered with
RECURSIVE FilterLoop(_, _, _, _)
FilterLoop(filters, order, first, filter_string) ==
    IF order = << >> THEN filter_string
    ELSE LET k == Head(order)
             sep == IF ~first THEN << "," >> ELSE << >>
         IN FilterLoop(filters, Tail(order), first,
                       filter_string \o sep \o << k, "=~", "\"", filters[k], "\"" >>)

\* filter_string after the loop; order is the iteration order of the HashMap
FilterString(filters, order) ==
    IF IsSome(filters) THEN FilterLoop(Unwrap(filters), order, TRUE, << >>)
    ELSE << >>

\* get_query that appends the filters to a template without a placeholder
GetQuery_AppendWithoutPlaceholder(query, filters, order) ==
    LET fs0 == FilterString(filters, order)
    IN IF Contains(query, FILTER_PLACEHOLDER) THEN Replace(query, FILTER_PLACEHOLDER, fs0)
       ELSE query \o fs0

\* get_query that adds the placeholder's comma whether or not a filter rendered
GetQuery_CommaAlways(query, filters, order) ==
    LET fs0 == FilterString(filters, order)
        has1 == Contains(query, FILTER_PLACEHOLDER_COMMA)
        fs1 == IF has1 THEN fs0 \o << "," >> ELSE fs0
        q1 == IF has1 THEN Replace(query, FILTER_PLACEHOLDER_COMMA, fs1) ELSE query
        has2 == Contains(q1, FILTER_COMMA_PLACEHOLDER)
        fs2 == IF has2 THEN << "," >> \o fs1 ELSE fs1
        q2 == IF has2 THEN Replace(q1, FILTER_COMMA_PLACEHOLDER, fs2) ELSE q1
        has3 == Contains(q2, FILTER_PLACEHOLDER)
    IN IF has3 THEN Replace(q2, FILTER_PLACEHOLDER, fs2) ELSE q2

\* the three substitutions; each `if` runs on the query the previous one left
\* and on the filter_string the previous one left
GetQuery(query, filters, order) ==
    LET fs0 == FilterString(filters, order)
        has1 == Contains(query, FILTER_PLACEHOLDER_COMMA)
        fs1 == IF has1 /\ fs0 # << >> THEN fs0 \o << "," >> ELSE fs0
        q1 == IF has1 THEN Replace(query, FILTER_PLACEHOLDER_COMMA, fs1) ELSE query
        has2 == Contains(q1, FILTER_COMMA_PLACEHOLDER)
        fs2 == IF has2 /\ fs1 # << >> THEN << "," >> \o fs1 ELSE fs1
        q2 == IF has2 THEN Replace(q1, FILTER_COMMA_PLACEHOLDER, fs2) ELSE q1
        has3 == Contains(q2, FILTER_PLACEHOLDER)
    IN IF has3 THEN Replace(q2, FILTER_PLACEHOLDER, fs2) ELSE q2

(***************************************************************************)
(* Inputs of get_query                                                     *)
(***************************************************************************)
TemplateSymbols == { "FILTERS", ",", "up" }
FilterKeys == { "job", "env" }
FilterValues == { "api", "web" }

RECURSIVE SeqsUpTo(_, _)
SeqsUpTo(S, n) ==
    IF n = 0 THEN { << >> }
    ELSE LET shorter == SeqsUpTo(S, n - 1)
         IN shorter \cup { Append(s, x) : s \in { t \in shorter : Len(t) = n - 1 }, x \in S }

Templates == SeqsUpTo(TemplateSymbols, MaxTemplateLen)

FilterMaps == UNION { [ks -> FilterValues] : ks \in SUBSET FilterKeys }
FilterSets == { None } \cup { Some(f) : f \in FilterMaps }

\* the orders in which a HashMap with these keys can be iterated
Orders(ks) == { o \in SeqsUpTo(ks, Cardinality(ks)) :
                  Len(o) = Cardinality(ks) /\ { o[i] : i \in 1..Len(o) } = ks }

KeysOf(filters) == IF IsSome(filters) THEN DOMAIN Unwrap(filters) ELSE { }

(***************************************************************************)
(* Time                                                                    *)
(***************************************************************************)
\* the instant the model starts at, the length of one step of the clock and
\* the number of steps the clock takes
Now0 == 1000300
TickMs == 700
MaxTicks == 1

\* DateTime::timestamp and Duration::num_seconds: whole seconds
timestamp(t) == t \div 1000
num_seconds(d) == d \div 1000

\* DateTime::to_rfc3339: the seconds and the fraction of the instant
to_rfc3339(t) == [secs |-> t \div 1000, millis |-> t % 1000]

\* DateTime::parse_from_rfc3339 on the texts of the model
parse_from_rfc3339(s) ==
    CASE s = "1970-01-01T00:15:50.500Z" -> Some(950500)
      [] OTHER -> None

\* parse_duration::parse on the texts of the model: an error, or a
\* std::time::Duration, which is too long for chrono when `fits` is FALSE
parse_duration_parse(s) ==
    CASE s = "10m" -> Some([fits |-> TRUE, ms |-> 600000])
      [] s = "1m" -> Some([fits |-> TRUE, ms |-> 60000])
      [] s = "1500ms" -> Some([fits |-> TRUE, ms |-> 1500])
      [] s = "500ms" -> Some([fits |-> TRUE, ms |-> 500])
      [] s = "300000000y" -> Some([fits |-> FALSE, ms |-> 0])
      [] OTHER -> None

\* chrono::Duration::from_std
from_std(d) == IF d.fits THEN Some(d.ms) ELSE None

duration_from_string(duration_string) ==
    LET parsed == parse_duration_parse(duration_string)
    IN IF IsSome(parsed) THEN from_std(Unwrap(parsed)) ELSE None

(***************************************************************************)
(* Span resolution (dashboard.rs)                                          *)
(***************************************************************************)
\* graph_span_to_tuple that gives up on an end it cannot parse
graph_span_to_tuple_EndRequired(span, t) ==
    IF span = None THEN None
    ELSE LET s == Unwrap(span)
             duration == duration_from_string(s.duration)
             step_duration == duration_from_string(s.step_duration)
         IN IF duration = None \/ step_duration = None THEN None
            ELSE IF s.end = "now" THEN Some(<<t, Unwrap(duration), Unwrap(step_duration)>>)
            ELSE IF IsSome(parse_from_rfc3339(s.end))
            THEN Some(<<Unwrap(parse_from_rfc3339(s.end)), Unwrap(duration),
                        Unwrap(step_duration)>>)
            ELSE None

\* t is the instant Utc::now() returns when the function reads the clock
graph_span_to_tuple(span, t) ==
    IF span = None THEN None
    ELSE LET s == Unwrap(span)
             duration == duration_from_string(s.duration)
             step_duration == duration_from_string(s.step_duration)
         IN IF duration = None THEN None
            ELSE IF step_duration = None THEN None
            ELSE LET end == IF s.end = "now" THEN t
                            ELSE IF IsSome(parse_from_rfc3339(s.end))
                            THEN Unwrap(parse_from_rfc3339(s.end))
                            ELSE t
                 IN Some(<<end, Unwrap(duration), Unwrap(step_duration)>>)

\* PromQueryConn::with_span, LokiConn::with_span, LogsqlConn::with_span: the
\* TimeSpan each of them stores
TimeSpan(tuple) ==
    [end |-> tuple[1], duration |-> tuple[2], step_seconds |-> num_seconds(tuple[3])]

with_span(conn, tuple) == [conn EXCEPT !.span = Some(TimeSpan(tuple))]

\* the chain that prefers the panel's span to the request's
ResolveSpan_PanelFirst(conn, graph_span, self_span, q_span, t) ==
    IF IsSome(graph_span_to_tuple(self_span, t))
    THEN with_span(conn, Unwrap(graph_span_to_tuple(self_span, t)))
    ELSE IF IsSome(graph_span_to_tuple(q_span, t))
    THEN with_span(conn, Unwrap(graph_span_to_tuple(q_span, t)))
    ELSE IF IsSome(graph_span_to_tuple(graph_span, t))
    THEN with_span(conn, Unwrap(graph_span_to_tuple(graph_span, t)))
    ELSE conn

\* the if / else if chain of get_query_connections and get_query_connection:
\* query parameters, then the panel's span, then the dashboard's
ResolveSpan(conn, graph_span, self_span, q_span, t) ==
    IF IsSome(graph_span_to_tuple(q_span, t))
    THEN with_span(conn, Unwrap(graph_span_to_tuple(q_span, t)))
    ELSE IF IsSome(graph_span_to_tuple(self_span, t))
    THEN with_span(conn, Unwrap(graph_span_to_tuple(self_span, t)))
    ELSE IF IsSome(graph_span_to_tuple(graph_span, t))
    THEN with_span(conn, Unwrap(graph_span_to_tuple(graph_span, t)))
    ELSE conn

(***************************************************************************)
(* Connectors                                                              *)
(***************************************************************************)
\* PromQueryConn::new
PromQueryConn(source, query, qt, meta) ==
    [source |-> source, query |-> query, query_type |-> qt, meta |-> meta,
     span |-> None, filters |-> None]

with_filters(conn, fs) == [conn EXCEPT !.filters = Some(fs)]

\* one iteration of the loop of Graph::get_query_connections
PlotConnection(plot, qt, self_span, graph_span, q_span, fs, t) ==
    LET conn0 == PromQueryConn(plot.source, plot.query, qt, plot.meta)
        conn1 == IF IsSome(fs) THEN with_filters(conn0, Unwrap(fs)) ELSE conn0
    IN ResolveSpan(conn1, graph_span, self_span, q_span, t)

\* LokiConn::new
LokiConn(url, query, qt) ==
    [url |-> url, query |-> query, query_type |-> qt, span |-> None, limit |-> None]

with_limit(conn, n) == [conn EXCEPT !.limit = Some(n)]

\* LogStream::get_query_connection
StreamConnection(stream, qt, self_span, graph_span, q_span, lim, t) ==
    LET conn0 == LokiConn(stream.source, stream.query, qt)
        conn1 == ResolveSpan(conn0, graph_span, self_span, q_span, t)
    IN IF IsSome(lim) THEN with_limit(conn1, Unwrap(lim)) ELSE conn1

\* LogsqlConn::new
LogsqlConn(url, query) == [url |-> url, query |-> query, span |-> None, limit |-> None]

(***************************************************************************)
(* PromQueryConn::get_results: the request it sends                        *)
(***************************************************************************)
\* the window of a connector without a span: the last ten minutes at 30 s
PROM_DEFAULT_MINUTES == 10
PROM_DEFAULT_STEP == 30

\* Client::try_from(self.source) on the sources of the model
ClientTryFrom(source) ==
    CASE source = "http://prom-a:9090" -> TRUE
      [] source = "http://prom-b:9090" -> TRUE
      [] OTHER -> FALSE

\* a window that starts at the end of the span and runs forward
PromWindow_Forward(span, t) ==
    IF IsSome(span)
    THEN LET s == Unwrap(span)
         IN <<timestamp(s.end), timestamp(s.end + s.duration), s.step_seconds>>
    ELSE <<timestamp(t), timestamp(t + PROM_DEFAULT_MINUTES * 60000), PROM_DEFAULT_STEP>>

\* a connector without a span queried over the last minute
PromWindow_ShortDefault(span, t) ==
    IF IsSome(span)
    THEN LET s == Unwrap(span)
         IN <<timestamp(s.end - s.duration), timestamp(s.end), s.step_seconds>>
    ELSE <<timestamp(t - 60000), timestamp(t), PROM_DEFAULT_STEP>>

\* (start, end, step_resolution); t is the instant Utc::now() returns
PromWindow(span, t) ==
    IF IsSome(span)
    THEN LET s == Unwrap(span)
             start == s.end - s.duration
         IN <<timestamp(start), timestamp(s.end), s.step_seconds>>
    ELSE LET end == t
             start == end - PROM_DEFAULT_MINUTES * 60000
         IN <<timestamp(start), timestamp(end), PROM_DEFAULT_STEP>>

\* client.query_range(query, start, end, step) or client.query(query)
PromRequest(conn, t, order) ==
    LET w == PromWindow(conn.span, t)
        query == GetQuery(conn.query, conn.filters, order)
    IN IF conn.query_type = "Range"
       THEN [api |-> "query_range", source |-> conn.source, query |-> query,
             start |-> w[1], end |-> w[2], step |-> w[3]]
       ELSE [api |-> "query", source |-> conn.source, query |-> query]

(***************************************************************************)
(* LokiConn::get_results: the request it sends                             *)
(***************************************************************************)
SCALAR_API_PATH == "/loki/api/v1/query"
RANGE_API_PATH == "/loki/api/v1/query_range"
LOKI_DEFAULT_MINUTES == 10
LOKI_DEFAULT_STEP == 30

\* (since, end, step_resolution) of a range query
LokiWindow(span, t) ==
    IF IsSome(span)
    THEN LET s == Unwrap(span)
         IN <<s.duration, timestamp(s.end), s.step_seconds>>
    ELSE <<LOKI_DEFAULT_MINUTES * 60000, timestamp(t), LOKI_DEFAULT_STEP>>

\* LokiRequest that adds the limit only next to the span parameters
LokiRequest_LimitWithSpanOnly(conn, t) ==
    LET w == LokiWindow(conn.span, t)
    IN [url |-> <<conn.url, IF conn.query_type = "Scalar" THEN SCALAR_API_PATH
                            ELSE RANGE_API_PATH>>,
        query |-> conn.query,
        limit |-> IF conn.query_type = "Range" THEN conn.limit ELSE None,
        range |-> IF conn.query_type = "Range"
                  THEN Some([end |-> w[2], since |-> <<num_seconds(w[1]), "s">>,
                             step |-> w[3]])
                  ELSE None]

\* the GET request: the path, then the parameters query, limit, end, since, step
LokiRequest(conn, t) ==
    LET w == LokiWindow(conn.span, t)
    IN [url |-> <<conn.url, IF conn.query_type = "Scalar" THEN SCALAR_API_PATH
                            ELSE RANGE_API_PATH>>,
        query |-> conn.query,
        limit |-> conn.limit,
        range |-> IF conn.query_type = "Range"
                  THEN Some([end |-> w[2], since |-> <<num_seconds(w[1]), "s">>,
                             step |-> w[3]])
                  ELSE None]

(***************************************************************************)
(* LogsqlConn::get_results: the request it sends                           *)
(***************************************************************************)
QUERY_API_PATH == "/select/logsql/query"

\* the form of the POST request: query, limit, start, end
LogsqlRequest(conn) ==
    [url |-> <<conn.url, QUERY_API_PATH>>,
     query |-> conn.query,
     limit |-> conn.limit,
     start |-> IF IsSome(conn.span)
               THEN Some(to_rfc3339(Unwrap(conn.span).end - Unwrap(conn.span).duration))
               ELSE None,
     end |-> IF IsSome(conn.span) THEN Some(to_rfc3339(Unwrap(conn.span).end)) ELSE None]

(***************************************************************************)
(* Results                                                                 *)
(***************************************************************************)
Ok(v) == [ok |-> TRUE, val |-> v]
Err(e) == [ok |-> FALSE, err |-> e]

\* what a request can fail with: reqwest / prometheus_http_query errors
BackendErrors == { "unreachable", "http 500" }

(***************************************************************************)
(* prom_to_samples                                                         *)
(***************************************************************************)
DataPoint(s) == [timestamp |-> s.timestamp, value |-> s.value]

\* HashMap::new()
EmptyLabels == << >>

\* prom_to_samples that gives the samples of a series newest first
prom_to_samples_NewestFirst(d, meta) ==
    CASE d.type = "matrix" ->
           [variant |-> "Series",
            items |-> [i \in 1..Len(d.result) |->
                         LET rv == d.result[i]
                             n == Len(rv.samples)
                         IN <<rv.metric, meta,
                              [j \in 1..n |-> DataPoint(rv.samples[n + 1 - j])]>>]]
      [] d.type = "vector" ->
           [variant |-> "Scalar",
            items |-> [i \in 1..Len(d.result) |->
                         <<d.result[i].metric, meta, DataPoint(d.result[i].sample)>>]]
      [] d.type = "scalar" ->
           [variant |-> "Scalar",
            items |-> << <<EmptyLabels, meta, DataPoint(d.sample)>> >>]

\* prom_to_samples that answers a Range panel's vector as a Series of one
\* point per label set
prom_to_samples_VectorAsSeries(d, meta) ==
    CASE d.type = "matrix" ->
           [variant |-> "Series",
            items |-> [i \in 1..Len(d.result) |->
                         LET rv == d.result[i]
                         IN <<rv.metric, meta,
                              [j \in 1..Len(rv.samples) |-> DataPoint(rv.samples[j])]>>]]
      [] d.type = "vector" ->
           [variant |-> "Series",
            items |-> [i \in 1..Len(d.result) |->
                         <<d.result[i].metric, meta, << DataPoint(d.result[i].sample) >> >>]]
      [] d.type = "scalar" ->
           [variant |-> "Scalar",
            items |-> << <<EmptyLabels, meta, DataPoint(d.sample)>> >>]

prom_to_samples(d, meta) ==
    CASE d.type = "matrix" ->
           [variant |-> "Series",
            items |-> [i \in 1..Len(d.result) |->
                         LET rv == d.result[i]
                         IN <<rv.metric, meta,
                              [j \in 1..Len(rv.samples) |-> DataPoint(rv.samples[j])]>>]]
      [] d.type = "vector" ->
           [variant |-> "Scalar",
            items |-> [i \in 1..Len(d.result) |->
                         LET iv == d.result[i]
                         IN <<iv.metric, meta, DataPoint(iv.sample)>>]]
      [] d.type = "scalar" ->
           [variant |-> "Scalar",
            items |-> << <<EmptyLabels, meta, DataPoint(d.sample)>> >>]

\* the payloads a metrics backend answers with
Sample(ts, v) == [timestamp |-> ts, value |-> v]
Labels(job) == [l \in { "job" } |-> job]

PromPayloads ==
    { [type |-> "matrix",
       result |-> << [metric |-> Labels("a"), samples |-> <<Sample(1, 10), Sample(2, 20)>>],
                     [metric |-> Labels("b"), samples |-> <<Sample(1, 30)>>] >>],
      [type |-> "vector",
       result |-> << [metric |-> Labels("b"), sample |-> Sample(2, 40)],
                     [metric |-> Labels("a"), sample |-> Sample(2, 50)] >>],
      [type |-> "scalar", sample |-> Sample(3, 60)] }

(***************************************************************************)
(* loki_to_sample                                                          *)
(***************************************************************************)
\* str::parse::<f64> on the timestamps of the model
parse_f64(s) ==
    CASE s = "17" -> Some(17)
      [] s = "18" -> Some(18)
      [] OTHER -> None

\* the entries that carry the field their result type asks for
LokiKept(d) ==
    IF d.result_type = "vector"
    THEN SelectSeq(d.result, LAMBDA r : IsSome(r.value))
    ELSE SelectSeq(d.result, LAMBDA r : IsSome(r.values))

\* expect("Invalid f64 type") fails on a timestamp of a kept entry
LokiPanics(d) ==
    \E i \in 1..Len(LokiKept(d)) :
      LET r == LokiKept(d)[i]
      IN IF d.result_type = "vector"
         THEN parse_f64(Unwrap(r.value)[1]) = None
         ELSE \E j \in 1..Len(Unwrap(r.values)) :
                parse_f64(Unwrap(r.values)[j][1]) = None

LogLine(pair) == [timestamp |-> Unwrap(parse_f64(pair[1])), line |-> pair[2]]

\* loki_to_sample that gives the lines of a streams response as StreamInstant
loki_to_sample_StreamsAsInstant(d) ==
    LET kept == LokiKept(d)
    IN IF d.result_type \in { "vector", "streams" }
       THEN [variant |-> "StreamInstant",
             items |-> [i \in 1..Len(kept) |->
                          <<kept[i].labels,
                            IF d.result_type = "vector"
                            THEN LogLine(Unwrap(kept[i].value))
                            ELSE [j \in 1..Len(Unwrap(kept[i].values)) |->
                                    LogLine(Unwrap(kept[i].values)[j])]>>]]
       ELSE [variant |-> "Stream",
             items |-> [i \in 1..Len(kept) |->
                          <<kept[i].labels,
                            [j \in 1..Len(Unwrap(kept[i].values)) |->
                               LogLine(Unwrap(kept[i].values)[j])]>>]]

\* the value loki_to_sample returns when it returns
loki_to_sample(d) ==
    LET kept == LokiKept(d)
    IN IF d.result_type = "vector"
       THEN [variant |-> "StreamInstant",
             items |-> [i \in 1..Len(kept) |->
                          <<kept[i].labels, LogLine(Unwrap(kept[i].value))>>]]
       ELSE [variant |-> "Stream",
             items |-> [i \in 1..Len(kept) |->
                          <<kept[i].labels,
                            [j \in 1..Len(Unwrap(kept[i].values)) |->
                               LogLine(Unwrap(kept[i].values)[j])]>>]]

LokiResult(job, value, values) == [labels |-> Labels(job), value |-> value, values |-> values]

\* the responses a Loki backend answers with
LokiResponses ==
    { [status |-> "success",
       data |-> [result_type |-> "vector",
                 result |-> << LokiResult("a", Some(<<"17", "one">>), None),
                               LokiResult("b", None, None),
                               LokiResult("c", Some(<<"18", "two">>), None) >>]],
      [status |-> "success",
       data |-> [result_type |-> "streams",
                 result |-> << LokiResult("a", None, Some(<< <<"17", "one">>, <<"18", "two">> >>)),
                               LokiResult("b", None, None) >>]],
      [status |-> "success",
       data |-> [result_type |-> "matrix",
                 result |-> << LokiResult("a", None, Some(<< <<"soon", "one">> >>)) >>]],
      [status |-> "error",
       data |-> [result_type |-> "streams", result |-> << >>]] }

(***************************************************************************)
(* LogsqlConn::get_results: the body it reads                              *)
(***************************************************************************)
\* LogsqlResult: _msg, _stream, _time and the flattened rest, a map from
\* key to JSON value
LogsqlResult(msg, stream, time, fields) ==
    [msg |-> msg, stream |-> stream, time |-> time, fields |-> fields]

\* a record with no field beside _msg, _stream and _time
NoFields == << >>

\* serde_json::from_str::<LogsqlResult> on the lines of the model
LogsqlFromStr(line) ==
    CASE line = "{\"_msg\":\"one\",\"_stream\":\"{}\",\"_time\":\"1970-01-01T00:15:50.500Z\"}" ->
           Some(LogsqlResult("one", "{}", "1970-01-01T00:15:50.500Z", NoFields))
      [] line = "{\"_msg\":\"two\",\"_stream\":\"{}\",\"_time\":\"soon\"}" ->
           Some(LogsqlResult("two", "{}", "soon", NoFields))
      [] OTHER -> None

\* line.trim().is_empty()
IsBlank(line) == line \in { "", "   " }

\* the loop over text.lines()
RECURSIVE LogsqlResults(_)
LogsqlResults(lines) ==
    IF lines = << >> THEN << >>
    ELSE LET line == Head(lines)
             rest == LogsqlResults(Tail(lines))
         IN IF ~IsBlank(line) /\ IsSome(LogsqlFromStr(line))
            THEN << Unwrap(LogsqlFromStr(line)) >> \o rest
            ELSE rest

\* the bodies a LogsQL backend answers with, as their lines
LogsqlBodies ==
    { << >>,
      << "{\"_msg\":\"one\",\"_stream\":\"{}\",\"_time\":\"1970-01-01T00:15:50.500Z\"}",
         "   ",
         "not json",
         "{\"_msg\":\"two\",\"_stream\":\"{}\",\"_time\":\"soon\"}" >>,
      << "not json", "" >> }

(***************************************************************************)
(* logsql_to_sample                                                        *)
(***************************************************************************)
\* a JSON value of the flattened fields: a string or something else
JsonString(text) == [kind |-> "string", text |-> text]
JsonNumber(text) == [kind |-> "number", text |-> text]

\* serde_json::Value::as_str
as_str(value) == IF value.kind = "string" THEN Some(value.text) ELSE None

\* DateTime::timestamp_nanos_opt of an instant of the model, as f64: the
\* nanoseconds since the epoch, written <<seconds, nanoseconds of the second>>
timestamp_nanos_opt(t) == Some(<< t \div 1000, (t % 1000) * 1000000 >>)

\* 0.0 and 0
ZeroNanos == << 0, 0 >>

\* parse_from_rfc3339(..).map(..timestamp_nanos_opt().unwrap_or(0) as f64)
\*   .unwrap_or_else(|_| 0.0)
LogsqlTimestamp(time) ==
    LET dt == parse_from_rfc3339(time)
    IN IF IsSome(dt)
       THEN LET n == timestamp_nanos_opt(Unwrap(dt))
            IN IF IsSome(n) THEN Unwrap(n) ELSE ZeroNanos
       ELSE ZeroNanos

\* labels: "stream", then every field whose value is a string, a later
\* insert replacing an earlier one
LogsqlLabels(r) ==
    LET strs == { k \in DOMAIN r.fields : IsSome(as_str(r.fields[k])) }
    IN [k \in { "stream" } \cup strs |->
          IF k \in strs THEN Unwrap(as_str(r.fields[k])) ELSE r.stream]

\* logsql_to_sample that drops the records whose _time is no timestamp
logsql_to_sample_DropBadTime(results) ==
    LET good == SelectSeq(results, LAMBDA r : IsSome(parse_from_rfc3339(r.time)))
    IN [variant |-> "StreamInstant",
        items |-> [i \in 1..Len(good) |->
                     << LogsqlLabels(good[i]),
                        [timestamp |-> LogsqlTimestamp(good[i].time),
                         line |-> good[i].msg] >>]]

logsql_to_sample(results) ==
    [variant |-> "StreamInstant",
     items |-> [i \in 1..Len(results) |->
                  << LogsqlLabels(results[i]),
                     [timestamp |-> LogsqlTimestamp(results[i].time),
                      line |-> results[i].msg] >>]]

(***************************************************************************)
(* Configuration and request                                               *)
(***************************************************************************)
\* the most sub-plots a panel of the model declares
MaxPlots == 2

QueryTypes == { "Range", "Scalar" }
EndStrings == { "now", "1970-01-01T00:15:50.500Z", "yesterday" }

GraphSpan(end, duration, step_duration) ==
    [end |-> end, duration |-> duration, step_duration |-> step_duration]

\* a request without query parameters
NoParams == << >>

\* query_to_graph_span that takes a missing end to be "now"
query_to_graph_span_EndOptional(query) ==
    IF { "duration", "step_duration" } \subseteq DOMAIN query
    THEN Some(GraphSpan(IF "end" \in DOMAIN query THEN query["end"] ELSE "now",
                        query["duration"], query["step_duration"]))
    ELSE None

\* routes.rs: the span candidate of the request's query parameters
query_to_graph_span(query) ==
    IF /\ "end" \in DOMAIN query
       /\ "duration" \in DOMAIN query
       /\ "step_duration" \in DOMAIN query
    THEN Some(GraphSpan(query["end"], query["duration"], query["step_duration"]))
    ELSE None

\* the query parameters that carry a span
SpanParams(span) ==
    [k \in { "end", "duration", "step_duration" } |->
       CASE k = "end" -> span.end
         [] k = "duration" -> span.duration
         [] k = "step_duration" -> span.step_duration]

\* span candidates: absent, durations that parse with each kind of end,
\* a duration or a step that does not parse, a duration that is out of range
SpanCandidates ==
    { None }
    \cup { Some(GraphSpan(e, "10m", "1m")) : e \in EndStrings }
    \cup { Some(GraphSpan(e, "1500ms", "500ms")) : e \in EndStrings }
    \cup { Some(GraphSpan("now", "abc", "1m")),
           Some(GraphSpan("1970-01-01T00:15:50.500Z", "10m", "half a minute")),
           Some(GraphSpan("now", "300000000y", "1m")) }

PlotSources == { "http://prom-a:9090", "prom-b 9090" }
SubPlots ==
    { [source |-> src, query |-> << "up" >>, meta |-> "meta-1"] : src \in PlotSources }
    \cup { [source |-> src, query |-> << "up", "{", "FILTERS", "}" >>, meta |-> "meta-2"] :
             src \in PlotSources }
PlotLists == SeqsUpTo(SubPlots, MaxPlots)

\* the LogStream of the model
LogStream == [source |-> "http://loki:3100", query |-> "{app=\"web\"}"]
Limits == { None, Some(100) }

ReqInit ==
    /\ handler = "none"
    /\ pc = "idle"
    /\ conns = << >>
    /\ built_at = << >>
    /\ sent = << >>
    /\ sent_at = << >>
    /\ answered = << >>
    /\ data = << >>
    /\ result = None

\* no call of get_query is under way
FilterOff ==
    /\ fq_query = << >>
    /\ fq_filters = None
    /\ fq_order = << >>
    /\ fq_rendered = << >>
    /\ fq_out = << >>
    /\ fq_done = TRUE

\* no normalizer is called
NormOff ==
    /\ nm_fn = "none"
    /\ nm_in = << >>
    /\ nm_meta = ""
    /\ nm_out = None
    /\ nm_pc = "off"

\* the process is not modelled
MainOff ==
    /\ args_validate = FALSE
    /\ args_offline = FALSE
    /\ config = None
    /\ main_pc = "off"
    /\ dash_idx = 0
    /\ issued = << >>
    /\ outcomes = << >>

\* no request is served
RequestOff ==
    /\ now = Now0
    /\ dash_span = None
    /\ panel_span = None
    /\ query_params = NoParams
    /\ query_span = None
    /\ req_filters = None
    /\ query_type = "Range"
    /\ plots = << >>
    /\ limit = None
    /\ ReqInit

\* get_query on one template and filter set
FilterInit ==
    /\ RequestOff
    /\ NormOff
    /\ MainOff
    /\ fq_query \in Templates
    /\ fq_filters \in FilterSets
    /\ fq_order = << >>
    /\ fq_rendered = << >>
    /\ fq_out = << >>
    /\ fq_done = FALSE

\* one call of get_query
CallGetQuery ==
    /\ ~fq_done
    /\ \E order \in Orders(KeysOf(fq_filters)) :
         /\ fq_order' = order
         /\ fq_rendered' = FilterString(fq_filters, order)
         /\ fq_out' = GetQuery(fq_query, fq_filters, order)
    /\ fq_done' = TRUE
    /\ UNCHANGED <<fq_query, fq_filters, nmvars, mainvars, now, cfgvars, reqvars>>

(***************************************************************************)
(* The normalizers on the answers of a backend                             *)
(***************************************************************************)
\* the most entries of an answer and the most samples or lines of an entry
MaxEntries == 2
MaxSamples == 2

\* metrics: samples out of order and repeated, label sets repeated
NormSamples == { Sample(2, 20), Sample(1, 10) }
NormLabels == { Labels("a"), Labels("b") }
RangeVectors ==
    { [metric |-> m, samples |-> ss] :
        m \in NormLabels, ss \in SeqsUpTo(NormSamples, MaxSamples) }
InstantVectors == { [metric |-> m, sample |-> x] : m \in NormLabels, x \in NormSamples }
NormPromData ==
    { [type |-> "matrix", result |-> r] : r \in SeqsUpTo(RangeVectors, MaxEntries) }
    \cup { [type |-> "vector", result |-> r] : r \in SeqsUpTo(InstantVectors, MaxEntries) }
    \cup { [type |-> "scalar", sample |-> x] : x \in NormSamples }

\* Loki: (timestamp, line) pairs whose timestamp is a number or is not;
\* entries with value, with values, or with neither
LokiPairs == { << "17", "one" >>, << "soon", "two" >> }
LokiEntries ==
    { [labels |-> l, value |-> v, values |-> None] :
        l \in NormLabels, v \in { None } \cup { Some(x) : x \in LokiPairs } }
    \cup { [labels |-> l, value |-> None, values |-> Some(vs)] :
              l \in NormLabels, vs \in SeqsUpTo(LokiPairs, MaxSamples) }
NormLokiData ==
    { [result_type |-> t, result |-> r] :
        t \in { "vector", "matrix", "streams" }, r \in SeqsUpTo(LokiEntries, MaxEntries) }

\* LogsQL: records with a _time that is a timestamp or is not, and with
\* fields that are strings, are not, or are called "stream"
LogsqlFields ==
    { NoFields,
      [k \in { "level" } |-> JsonString("info")],
      [k \in { "count" } |-> JsonNumber("3")],
      [k \in { "stream" } |-> JsonString("other")] }
LogsqlRecords ==
    { LogsqlResult(m, "{}", t, f) :
        m \in { "one", "two" }, t \in { "1970-01-01T00:15:50.500Z", "soon" },
        f \in LogsqlFields }
NormLogsqlResults == SeqsUpTo(LogsqlRecords, MaxEntries)

\* one normalizer about to be applied to one answer
NormInit ==
    /\ FilterOff
    /\ RequestOff
    /\ MainOff
    /\ nm_fn \in { "prom", "loki", "logsql" }
    /\ nm_in \in CASE nm_fn = "prom" -> NormPromData
                 [] nm_fn = "loki" -> NormLokiData
                 [] nm_fn = "logsql" -> NormLogsqlResults
    /\ nm_meta \in IF nm_fn = "prom" THEN { "meta-1", "meta-2" } ELSE { "" }
    /\ nm_out = None
    /\ nm_pc = "ready"

CallPromToSamples ==
    /\ nm_pc = "ready" /\ nm_fn = "prom"
    /\ nm_out' = Some(prom_to_samples(nm_in, nm_meta))
    /\ nm_pc' = "returned"
    /\ UNCHANGED <<fqvars, nm_fn, nm_in, nm_meta, mainvars, now, cfgvars, reqvars>>

\* expect() on a timestamp that is no number panics: nothing is returned
CallLokiToSample ==
    /\ nm_pc = "ready" /\ nm_fn = "loki"
    /\ IF LokiPanics(nm_in)
       THEN nm_out' = nm_out /\ nm_pc' = "panicked"
       ELSE nm_out' = Some(loki_to_sample(nm_in)) /\ nm_pc' = "returned"
    /\ UNCHANGED <<fqvars, nm_fn, nm_in, nm_meta, mainvars, now, cfgvars, reqvars>>

CallLogsqlToSample ==
    /\ nm_pc = "ready" /\ nm_fn = "logsql"
    /\ nm_out' = Some(logsql_to_sample(nm_in))
    /\ nm_pc' = "returned"
    /\ UNCHANGED <<fqvars, nm_fn, nm_in, nm_meta, mainvars, now, cfgvars, reqvars>>

NormNext ==
    \/ CallPromToSamples
    \/ CallLokiToSample
    \/ CallLogsqlToSample

\* panels of every shape under a few spans
Init ==
    /\ FilterOff
    /\ NormOff
    /\ MainOff
    /\ now = Now0
    /\ dash_span \in { None, Some(GraphSpan("now", "10m", "1m")) }
    /\ panel_span = None
    /\ query_params \in { NoParams,
                          SpanParams(GraphSpan("1970-01-01T00:15:50.500Z", "1500ms", "500ms")) }
    /\ query_span = query_to_graph_span(query_params)
    /\ req_filters \in { None, Some([k \in { "job" } |-> "api"]) }
    /\ query_type \in QueryTypes
    /\ plots \in PlotLists
    /\ limit \in Limits
    /\ ReqInit

\* every combination of span candidates on one panel
SpanInit ==
    /\ FilterOff
    /\ NormOff
    /\ MainOff
    /\ now = Now0
    /\ dash_span \in SpanCandidates
    /\ panel_span \in SpanCandidates
    /\ query_params \in { IF IsSome(c) THEN SpanParams(Unwrap(c)) ELSE NoParams :
                            c \in SpanCandidates }
    /\ query_span = query_to_graph_span(query_params)
    /\ req_filters = None
    /\ query_type \in QueryTypes
    /\ plots \in { << >>,
                   << [source |-> "http://prom-a:9090", query |-> << "up" >>, meta |-> "meta-1"],
                      [source |-> "http://prom-b:9090", query |-> << "up" >>, meta |-> "meta-2"] >> }
    /\ limit = None
    /\ ReqInit

\* the values the span parameters of a request of the model have
ParamValues == SpanParams(GraphSpan("now", "1m", "1m"))

\* a request with every subset of the parameters end, duration and
\* step_duration, on a panel and a dashboard with or without a span
ParamsInit ==
    /\ FilterOff
    /\ NormOff
    /\ MainOff
    /\ now = Now0
    /\ dash_span \in { None, Some(GraphSpan("now", "10m", "1m")) }
    /\ panel_span \in { None, Some(GraphSpan("1970-01-01T00:15:50.500Z", "1500ms", "500ms")) }
    /\ query_params \in { [k \in K |-> ParamValues[k]] : K \in SUBSET DOMAIN ParamValues }
    /\ query_span = query_to_graph_span(query_params)
    /\ req_filters = None
    /\ query_type \in QueryTypes
    /\ plots \in { << >>,
                   << [source |-> "http://prom-a:9090", query |-> << "up" >>, meta |-> "meta-1"] >>,
                   << [source |-> "prom-b 9090", query |-> << "up" >>, meta |-> "meta-1"] >> }
    /\ limit = None
    /\ ReqInit

(***************************************************************************)
(* The clock                                                               *)
(***************************************************************************)
Tick ==
    /\ pc \notin { "done", "panicked" }
    /\ now < Now0 + MaxTicks * TickMs
    /\ now' = now + TickMs
    /\ UNCHANGED <<fqvars, nmvars, mainvars, cfgvars, reqvars>>

(***************************************************************************)
(* prom_query_data                                                         *)
(***************************************************************************)
\* a panel without sub-plots: no connector, no call, Ok(data)
PromQueryDataEmpty ==
    /\ pc = "idle"
    /\ plots = << >>
    /\ handler' = "graph"
    /\ result' = Some(Ok(data))
    /\ pc' = "done"
    /\ UNCHANGED <<fqvars, nmvars, mainvars, now, cfgvars, conns, built_at, sent, sent_at, answered, data>>

\* one iteration of the loop of get_query_connections
BuildConnection ==
    /\ pc \in { "idle", "graph_build" }
    /\ Len(conns) < Len(plots)
    /\ handler' = "graph"
    /\ LET i == Len(conns) + 1
       IN /\ conns' = Append(conns, PlotConnection(plots[i], query_type, panel_span,
                                                    dash_span, query_span, req_filters, now))
          /\ built_at' = Append(built_at, now)
          /\ pc' = IF i = Len(plots) THEN "graph_run" ELSE "graph_build"
    /\ UNCHANGED <<fqvars, nmvars, mainvars, now, cfgvars, sent, sent_at, answered, data, result>>

\* PromGetResults of a panel that starts the call of the next sub-plot while
\* an earlier one is still awaited
PromGetResults_Eager ==
    /\ pc \in { "graph_run", "graph_await" }
    /\ Len(sent) < Len(conns)
    /\ LET conn == conns[Len(sent) + 1]
       IN IF ~ClientTryFrom(conn.source)
          THEN /\ result' = Some(Err("invalid source"))
               /\ pc' = "done"
               /\ UNCHANGED <<sent, sent_at>>
          ELSE /\ \E order \in Orders(KeysOf(conn.filters)) :
                    sent' = Append(sent, PromRequest(conn, now, order))
               /\ sent_at' = Append(sent_at, now)
               /\ pc' = "graph_await"
               /\ UNCHANGED result
    /\ UNCHANGED <<fqvars, nmvars, mainvars, now, cfgvars, handler, conns, built_at, answered, data>>

\* conn.get_results() up to its await: the client, the window, the query,
\* the request; a source that is no URL fails the call and, by `?`, the panel
PromGetResults ==
    /\ pc = "graph_run"
    /\ LET conn == conns[Len(data) + 1]
       IN IF ~ClientTryFrom(conn.source)
          THEN /\ result' = Some(Err("invalid source"))
               /\ pc' = "done"
               /\ UNCHANGED <<sent, sent_at>>
          ELSE /\ \E order \in Orders(KeysOf(conn.filters)) :
                    sent' = Append(sent, PromRequest(conn, now, order))
               /\ sent_at' = Append(sent_at, now)
               /\ pc' = "graph_await"
               /\ UNCHANGED result
    /\ UNCHANGED <<fqvars, nmvars, mainvars, now, cfgvars, handler, conns, built_at, answered, data>>

\* PromBackendOk that puts each result in front of the earlier ones
PromBackendOk_PushFront ==
    /\ pc = "graph_await"
    /\ \E payload \in PromPayloads :
         LET i == Len(data) + 1
         IN /\ answered' = Append(answered, payload)
            /\ data' = << prom_to_samples(payload, conns[i].meta) >> \o data
            /\ IF i = Len(conns)
               THEN result' = Some(Ok(data')) /\ pc' = "done"
               ELSE result' = result /\ pc' = "graph_run"
    /\ UNCHANGED <<fqvars, nmvars, mainvars, now, cfgvars, handler, conns, built_at, sent, sent_at>>

\* the backend answers the outstanding call: the result is normalized and
\* pushed; after the last connector the panel returns Ok(data)
PromBackendOk ==
    /\ pc = "graph_await"
    /\ \E payload \in PromPayloads :
         LET i == Len(data) + 1
         IN /\ answered' = Append(answered, payload)
            /\ data' = Append(data, prom_to_samples(payload, conns[i].meta))
            /\ IF i = Len(conns)
               THEN result' = Some(Ok(data')) /\ pc' = "done"
               ELSE result' = result /\ pc' = "graph_run"
    /\ UNCHANGED <<fqvars, nmvars, mainvars, now, cfgvars, handler, conns, built_at, sent, sent_at>>

\* PromBackendErr that calls the failed sub-plot's backend again
PromBackendErr_Retry ==
    /\ pc = "graph_await"
    /\ \E e \in BackendErrors : answered' = Append(answered, Err(e))
    /\ pc' = "graph_run"
    /\ UNCHANGED <<fqvars, nmvars, mainvars, now, cfgvars, handler, conns, built_at, sent, sent_at,
                   data, result>>

\* PromBackendErr that keeps what the earlier sub-plots gave
PromBackendErr_Partial ==
    /\ pc = "graph_await"
    /\ \E e \in BackendErrors :
         /\ answered' = Append(answered, Err(e))
         /\ result' = Some(Ok(data))
    /\ pc' = "done"
    /\ UNCHANGED <<fqvars, nmvars, mainvars, now, cfgvars, handler, conns, built_at, sent, sent_at, data>>

\* the outstanding call fails: `?` returns its error from prom_query_data
PromBackendErr ==
    /\ pc = "graph_await"
    /\ \E e \in BackendErrors :
         /\ answered' = Append(answered, Err(e))
         /\ result' = Some(Err(e))
    /\ pc' = "done"
    /\ UNCHANGED <<fqvars, nmvars, mainvars, now, cfgvars, handler, conns, built_at, sent, sent_at, data>>

(***************************************************************************)
(* loki_query_data                                                         *)
(***************************************************************************)
\* stream.get_query_connection
GetQueryConnection ==
    /\ pc = "idle"
    /\ handler' = "log"
    /\ conns' = << StreamConnection(LogStream, query_type, panel_span, dash_span,
                                    query_span, limit, now) >>
    /\ built_at' = << now >>
    /\ pc' = "log_run"
    /\ UNCHANGED <<fqvars, nmvars, mainvars, now, cfgvars, sent, sent_at, answered, data, result>>

\* conn.get_results() up to its await
LokiGetResults ==
    /\ pc = "log_run"
    /\ sent' = << LokiRequest(conns[1], now) >>
    /\ sent_at' = << now >>
    /\ pc' = "log_await"
    /\ UNCHANGED <<fqvars, nmvars, mainvars, now, cfgvars, handler, conns, built_at, answered, data, result>>

\* a response arrives and parses: loki_to_sample on success, panic! otherwise
LokiBackendOk ==
    /\ pc = "log_await"
    /\ \E response \in LokiResponses :
         /\ answered' = << response >>
         /\ IF response.status = "success" /\ ~LokiPanics(response.data)
            THEN result' = Some(Ok(loki_to_sample(response.data))) /\ pc' = "done"
            ELSE result' = result /\ pc' = "panicked"
    /\ UNCHANGED <<fqvars, nmvars, mainvars, now, cfgvars, handler, conns, built_at, sent, sent_at, data>>

\* the request fails or the body is no LokiResponse
LokiBackendErr ==
    /\ pc = "log_await"
    /\ \E e \in BackendErrors :
         /\ answered' = << Err(e) >>
         /\ result' = Some(Err(e))
    /\ pc' = "done"
    /\ UNCHANGED <<fqvars, nmvars, mainvars, now, cfgvars, handler, conns, built_at, sent, sent_at, data>>

(***************************************************************************)
(* LogsqlConn                                                              *)
(***************************************************************************)
\* LogsqlConn::new, with_limit and with_span on a tuple that
\* graph_span_to_tuple gives for a span of the configuration
LogsqlBuild ==
    /\ pc = "idle"
    /\ handler' = "logsql"
    /\ \E span \in { dash_span, panel_span, query_span } :
         LET conn0 == LogsqlConn("http://vlogs:9428", LogStream.query)
             conn1 == IF IsSome(limit) THEN with_limit(conn0, Unwrap(limit)) ELSE conn0
             tuple == graph_span_to_tuple(span, now)
         IN conns' = << IF IsSome(tuple) THEN with_span(conn1, Unwrap(tuple)) ELSE conn1 >>
    /\ built_at' = << now >>
    /\ pc' = "logsql_run"
    /\ UNCHANGED <<fqvars, nmvars, mainvars, now, cfgvars, sent, sent_at, answered, data, result>>

\* get_results up to its await
LogsqlGetResults ==
    /\ pc = "logsql_run"
    /\ sent' = << LogsqlRequest(conns[1]) >>
    /\ sent_at' = << now >>
    /\ pc' = "logsql_await"
    /\ UNCHANGED <<fqvars, nmvars, mainvars, now, cfgvars, handler, conns, built_at, answered, data, result>>

\* LogsqlBackendOk that fails the call on a line that is no record
LogsqlBackendOk_FailOnBadLine ==
    /\ pc = "logsql_await"
    /\ \E body \in LogsqlBodies :
         /\ answered' = << [text |-> body] >>
         /\ result' = IF \E i \in 1..Len(body) :
                           ~IsBlank(body[i]) /\ LogsqlFromStr(body[i]) = None
                       THEN Some(Err("parse"))
                       ELSE Some(Ok(LogsqlResults(body)))
    /\ pc' = "done"
    /\ UNCHANGED <<fqvars, nmvars, mainvars, now, cfgvars, handler, conns, built_at, sent, sent_at, data>>

\* the body arrives: the records of its lines
LogsqlBackendOk ==
    /\ pc = "logsql_await"
    /\ \E body \in LogsqlBodies :
         /\ answered' = << [text |-> body] >>
         /\ result' = Some(Ok(LogsqlResults(body)))
    /\ pc' = "done"
    /\ UNCHANGED <<fqvars, nmvars, mainvars, now, cfgvars, handler, conns, built_at, sent, sent_at, data>>

LogsqlBackendErr ==
    /\ pc = "logsql_await"
    /\ \E e \in BackendErrors :
         /\ answered' = << Err(e) >>
         /\ result' = Some(Err(e))
    /\ pc' = "done"
    /\ UNCHANGED <<fqvars, nmvars, mainvars, now, cfgvars, handler, conns, built_at, sent, sent_at, data>>

(***************************************************************************)
(* main and validate                                                       *)
(***************************************************************************)
\* the most dashboards of a configuration, graphs and log streams of a dashboard
MaxDashboards == 2
MaxGraphs == 2
MaxLogs == 1

\* Dashboard: graphs and logs are Option<Vec<..>>, here of the positions
Dashboard(graphs, logs) == [graphs |-> graphs, logs |-> logs]
Dashboards ==
    { Dashboard(g, l) :
        g \in { None } \cup { Some([i \in 1..n |-> i]) : n \in 0..MaxGraphs },
        l \in { None } \cup { Some([i \in 1..n |-> i]) : n \in 0..MaxLogs } }

\* what read_dashboard_list returns: an error or the dashboards of the file
Configs == { None } \cup { Some(ds) : ds \in SeqsUpTo(Dashboards, MaxDashboards) }

\* one query of validate: the graph or log stream it is run for
Query(d, kind, idx) == [dash |-> d, kind |-> kind, idx |-> idx]

\* the queries validate runs for dashboard d: its graphs, then its logs
ValidateQueries(d) ==
    LET dash == Unwrap(config)[d]
        graphs == IF IsSome(dash.graphs) THEN Unwrap(dash.graphs) ELSE << >>
        logs == IF IsSome(dash.logs) THEN Unwrap(dash.logs) ELSE << >>
    IN [i \in 1..Len(graphs) |-> Query(d, "graph", graphs[i])]
       \o [i \in 1..Len(logs) |-> Query(d, "log", logs[i])]

\* the queries validate has run for dashboard d
IssuedFor(d) == SelectSeq(issued, LAMBDA q : q.dash = d)

\* the process starts: any flags, any configuration
MainInit ==
    /\ FilterOff
    /\ NormOff
    /\ RequestOff
    /\ args_validate \in BOOLEAN
    /\ args_offline \in BOOLEAN
    /\ config \in Configs
    /\ main_pc = "start"
    /\ dash_idx = 0
    /\ issued = << >>
    /\ outcomes = << >>

\* main up to its first await: the configuration is read; with --validate
\* and without --offline the loop over the dashboards is entered, and in
\* every other case, an empty dashboard list included, main goes on to the
\* router and the listener
MainStart ==
    /\ main_pc = "start"
    /\ IF config = None
       THEN main_pc' = "exit_err" /\ dash_idx' = dash_idx
       ELSE IF args_validate /\ ~args_offline /\ Len(Unwrap(config)) > 0
            THEN main_pc' = "validate" /\ dash_idx' = 1
            ELSE main_pc' = "bind" /\ dash_idx' = dash_idx
    /\ UNCHANGED <<fqvars, nmvars, args_validate, args_offline, config, issued, outcomes,
                   now, cfgvars, reqvars>>

\* validate calls prom_query_data or loki_query_data for its next query
ValidateQuery ==
    /\ main_pc = "validate"
    /\ Len(IssuedFor(dash_idx)) < Len(ValidateQueries(dash_idx))
    /\ issued' = Append(issued, ValidateQueries(dash_idx)[Len(IssuedFor(dash_idx)) + 1])
    /\ main_pc' = "await"
    /\ UNCHANGED <<fqvars, nmvars, args_validate, args_offline, config, dash_idx, outcomes,
                   now, cfgvars, reqvars>>

\* the query returns Ok: validate goes on
QueryOk ==
    /\ main_pc = "await"
    /\ outcomes' = Append(outcomes, "ok")
    /\ main_pc' = "validate"
    /\ UNCHANGED <<fqvars, nmvars, args_validate, args_offline, config, dash_idx, issued,
                   now, cfgvars, reqvars>>

\* QueryErr of a validate that logs the error and goes on
QueryErr_LogOnly ==
    /\ main_pc = "await"
    /\ outcomes' = Append(outcomes, "err")
    /\ main_pc' = "validate"
    /\ UNCHANGED <<fqvars, nmvars, args_validate, args_offline, config, dash_idx, issued,
                   now, cfgvars, reqvars>>

\* the query returns Err: `data?` returns it from validate, and the `?` of
\* main returns it from main
QueryErr ==
    /\ main_pc = "await"
    /\ outcomes' = Append(outcomes, "err")
    /\ main_pc' = "exit_err"
    /\ UNCHANGED <<fqvars, nmvars, args_validate, args_offline, config, dash_idx, issued,
                   now, cfgvars, reqvars>>

\* loki_query_data panics (a status that is not "success", a timestamp that
\* is no number)
QueryPanic ==
    /\ main_pc = "await"
    /\ issued[Len(issued)].kind = "log"
    /\ outcomes' = Append(outcomes, "panic")
    /\ main_pc' = "panicked"
    /\ UNCHANGED <<fqvars, nmvars, args_validate, args_offline, config, dash_idx, issued,
                   now, cfgvars, reqvars>>

\* validate returns Ok(()): main logs the success and returns Ok(()) from
\* inside its loop over the dashboards
ValidateReturn ==
    /\ main_pc = "validate"
    /\ Len(IssuedFor(dash_idx)) = Len(ValidateQueries(dash_idx))
    /\ main_pc' = "exit_ok"
    /\ UNCHANGED <<fqvars, nmvars, args_validate, args_offline, config, dash_idx, issued,
                   outcomes, now, cfgvars, reqvars>>

\* TcpListener::bind succeeds and axum::serve runs
BindOk ==
    /\ main_pc = "bind"
    /\ main_pc' = "serving"
    /\ UNCHANGED <<fqvars, nmvars, args_validate, args_offline, config, dash_idx, issued,
                   outcomes, now, cfgvars, reqvars>>

\* TcpListener::bind fails: expect() panics
BindFail ==
    /\ main_pc = "bind"
    /\ main_pc' = "panicked"
    /\ UNCHANGED <<fqvars, nmvars, args_validate, args_offline, config, dash_idx, issued,
                   outcomes, now, cfgvars, reqvars>>

MainNext ==
    \/ MainStart
    \/ ValidateQuery
    \/ QueryOk
    \/ QueryErr
    \/ QueryPanic
    \/ ValidateReturn
    \/ BindOk
    \/ BindFail

(***************************************************************************)
(* Specifications                                                          *)
(***************************************************************************)
Next ==
    \/ Tick
    \/ PromQueryDataEmpty
    \/ BuildConnection
    \/ PromGetResults
    \/ PromBackendOk
    \/ PromBackendErr
    \/ GetQueryConnection
    \/ LokiGetResults
    \/ LokiBackendOk
    \/ LokiBackendErr
    \/ LogsqlBuild
    \/ LogsqlGetResults
    \/ LogsqlBackendOk
    \/ LogsqlBackendErr

\* a panel or a log stream queried once
Spec == Init /\ [][Next]_vars

\* the same, over every combination of span candidates
SpecSpan == SpanInit /\ [][Next]_vars

\* get_query on every template and filter set
SpecFilter == FilterInit /\ [][CallGetQuery]_vars

\* a panel or a log stream queried with some of the span parameters
SpecParams == ParamsInit /\ [][Next]_vars

\* the process from its start to its exit or to axum::serve
SpecMain == MainInit /\ [][MainNext]_vars

\* each normalizer on every answer of the model
SpecNorm == NormInit /\ [][NormNext]_vars

(***************************************************************************)
(* Properties of get_query                                                 *)
(***************************************************************************)
NumFilters == Cardinality(KeysOf(fq_filters))

\* positions of the word FILTERS in a template
TokenAt(q) == { i \in 1..Len(q) : q[i] = "FILTERS" }
\* every FILTERS of the template has a comma before it / after it
AllCommaPrefixed(q) == \A i \in TokenAt(q) : i > 1 /\ q[i - 1] = ","
AllCommaSuffixed(q) == \A i \in TokenAt(q) : i < Len(q) /\ q[i + 1] = ","
\* the template uses the form ",FILTERS" and no other / "FILTERS," and no other
OnlyCommaPrefixedForm(q) ==
    /\ TokenAt(q) # { }
    /\ AllCommaPrefixed(q)
    /\ \A i \in TokenAt(q) : ~(i < Len(q) /\ q[i + 1] = ",")
OnlyCommaSuffixedForm(q) ==
    /\ TokenAt(q) # { }
    /\ AllCommaSuffixed(q)
    /\ \A i \in TokenAt(q) : ~(i > 1 /\ q[i - 1] = ",")

\* C6: a template that holds none of the tokens "FILTERS,", ",FILTERS" and
\* "FILTERS" is returned unchanged, whether the filters are absent, empty or
\* non-empty.
C6_NoPlaceholderUnchanged ==
    (fq_done /\ TokenAt(fq_query) = { }) => fq_out = fq_query

C6_Witness ==
    /\ fq_done
    /\ TokenAt(fq_query) = { }
    /\ Len(fq_query) >= 2
    /\ NumFilters = 2
    /\ fq_rendered # << >>
    /\ fq_out = fq_query

RECURSIVE CommaJoined(_, _)
CommaJoined(filters, order) ==
    IF order = << >> THEN << >>
    ELSE << Head(order), "=~", "\"", filters[Head(order)], "\"" >>
         \o (IF Tail(order) = << >> THEN << >> ELSE << "," >>)
         \o CommaJoined(filters, Tail(order))

\* C8: k >= 1 filters are rendered as k clauses label=~"pattern" separated by
\* exactly k-1 commas, before any placeholder comma is added.
C8_CommaJoinedClauses ==
    (fq_done /\ NumFilters >= 1) =>
      fq_rendered = CommaJoined(Unwrap(fq_filters), fq_order)

\* the template with only its first matching token form substituted
FirstFormOnly(q, rendered) ==
    IF Contains(q, << "FILTERS", "," >>)
    THEN Replace(q, << "FILTERS", "," >>,
                 IF rendered = << >> THEN << >> ELSE rendered \o << "," >>)
    ELSE IF Contains(q, << ",", "FILTERS" >>)
    THEN Replace(q, << ",", "FILTERS" >>,
                 IF rendered = << >> THEN << >> ELSE << "," >> \o rendered)
    ELSE Replace(q, << "FILTERS" >>, rendered)

\* C9: only the first token form that matches, in the order "FILTERS,",
\* ",FILTERS", "FILTERS", is substituted; occurrences of the later forms stay
\* as they are.
C9_OnlyFirstFormSubstituted ==
    fq_done => fq_out = FirstFormOnly(fq_query, fq_rendered)

(***************************************************************************)
(* Properties of span resolution and of the requests sent                  *)
(***************************************************************************)
\* the duration and the step of a candidate both parse
Parses(c) ==
    /\ IsSome(c)
    /\ IsSome(duration_from_string(Unwrap(c).duration))
    /\ IsSome(duration_from_string(Unwrap(c).step_duration))

\* the highest-precedence candidate that parses: query > panel > dashboard
Winner ==
    IF Parses(query_span) THEN query_span
    ELSE IF Parses(panel_span) THEN panel_span
    ELSE IF Parses(dash_span) THEN dash_span
    ELSE None

DurationMs(c) == Unwrap(duration_from_string(c.duration))
StepMs(c) == Unwrap(duration_from_string(c.step_duration))
EndIsTimestamp(c) == c.end # "now" /\ IsSome(parse_from_rfc3339(c.end))

\* the connectors of a panel or of a log stream
Resolved == handler \in { "graph", "log" }

\* C1: the span of every connector of a panel or log stream is the end, the
\* duration and the step (in the whole seconds a TimeSpan holds) of the
\* highest-precedence candidate whose duration and step both parse, all three
\* from that one candidate; when no candidate parses the connector has no span.
C1_HighestPrecedenceCandidateWins ==
    Resolved =>
      \A i \in 1..Len(conns) :
        IF Winner = None THEN conns[i].span = None
        ELSE LET w == Unwrap(Winner)
             IN conns[i].span =
                  Some([end |-> IF EndIsTimestamp(w) THEN Unwrap(parse_from_rfc3339(w.end))
                                ELSE built_at[i],
                        duration |-> DurationMs(w),
                        step_seconds |-> num_seconds(StepMs(w))])

\* the request's candidate does not parse, the panel's and the dashboard's do
C1_Witness ==
    /\ handler = "graph"
    /\ query_span = Some(GraphSpan("now", "abc", "1m"))
    /\ panel_span = Some(GraphSpan("1970-01-01T00:15:50.500Z", "1500ms", "500ms"))
    /\ dash_span = Some(GraphSpan("now", "10m", "1m"))
    /\ Len(conns) = 2
    /\ conns[2].span = Some([end |-> 950500, duration |-> 1500, step_seconds |-> 0])

\* C2: when no candidate parses, a Range metrics query is sent with end = the
\* instant get_results runs at, start = end - 10 minutes and step = 30, and a
\* Range Loki query is sent with that end, since = 600s and step = 30.
C2_DefaultWindow ==
    (Winner = None /\ query_type = "Range") =>
      \A i \in 1..Len(sent) :
        /\ handler = "graph" =>
             /\ sent[i].api = "query_range"
             /\ sent[i].end = timestamp(sent_at[i])
             /\ sent[i].start = timestamp(sent_at[i] - 10 * 60 * 1000)
             /\ sent[i].step = 30
        /\ handler = "log" =>
             sent[i].range = Some([end |-> timestamp(sent_at[i]),
                                   since |-> <<600, "s">>,
                                   step |-> 30])

\* candidates are present but none parses; the clock moved before the request
C2_Witness ==
    /\ handler = "graph"
    /\ query_type = "Range"
    /\ Winner = None
    /\ IsSome(query_span) /\ IsSome(dash_span)
    /\ Len(sent) = 2
    /\ built_at[2] < sent_at[2]
    /\ sent[2].end = 1001 /\ sent[2].start = 401 /\ sent[2].step = 30

\* C3: the end of the winning candidate is the instant the span is resolved
\* at when its text is "now", the parsed instant when its text is an RFC 3339
\* timestamp, and the instant the span is resolved at for any other text; a
\* candidate whose end does not parse still wins over the candidates below it.
C3_EndResolution ==
    (Resolved /\ Winner # None) =>
      \A i \in 1..Len(conns) :
        LET w == Unwrap(Winner)
        IN /\ IsSome(conns[i].span)
           /\ w.end = "now" => Unwrap(conns[i].span).end = built_at[i]
           /\ EndIsTimestamp(w) =>
                Unwrap(conns[i].span).end = Unwrap(parse_from_rfc3339(w.end))
           /\ (w.end # "now" /\ ~EndIsTimestamp(w)) =>
                /\ Unwrap(conns[i].span).end = built_at[i]
                /\ Unwrap(conns[i].span).duration = DurationMs(w)

\* the request's end does not parse; its duration and step win over the panel's
C3_Witness ==
    /\ handler = "log"
    /\ query_span = Some(GraphSpan("yesterday", "1500ms", "500ms"))
    /\ panel_span = Some(GraphSpan("now", "10m", "1m"))
    /\ Len(conns) = 1
    /\ built_at[1] < now
    /\ conns[1].span = Some([end |-> built_at[1], duration |-> 1500, step_seconds |-> 0])

\* an instant in the form to_rfc3339 writes is not after another
Rfc3339LessEq(a, b) == a.secs < b.secs \/ (a.secs = b.secs /\ a.millis <= b.millis)

C5_StepKeepsFraction ==
    (Winner # None /\ query_type = "Range") =>
      \A i \in 1..Len(sent) :
        /\ handler = "graph" =>
             /\ sent[i].step * 1000 = StepMs(Unwrap(Winner))
             /\ StepMs(Unwrap(Winner)) > 0 => sent[i].step > 0
        /\ handler = "log" =>
             /\ Unwrap(sent[i].range).step * 1000 = StepMs(Unwrap(Winner))
             /\ StepMs(Unwrap(Winner)) > 0 => Unwrap(sent[i].range).step > 0

(***************************************************************************)
(* Properties of prom_query_data                                           *)
(***************************************************************************)
\* C10: when every sub-plot query succeeds the panel returns one result per
\* sub-plot, the i-th being the normalized answer to the i-th sub-plot's
\* request with that sub-plot's meta, however long the backends take.
C10_OneResultPerPlotInOrder ==
    (handler = "graph" /\ IsSome(result) /\ Unwrap(result).ok) =>
      LET out == Unwrap(result).val
      IN /\ Len(out) = Len(plots)
         /\ Len(sent) = Len(plots)
         /\ \A i \in 1..Len(plots) :
              /\ sent[i].source = plots[i].source
              /\ out[i] = prom_to_samples(answered[i], plots[i].meta)
              /\ \A k \in 1..Len(out[i].items) : out[i].items[k][2] = plots[i].meta

\* two sub-plots with different meta, answered differently, the clock moving
\* while the panel waits
C10_Witness ==
    /\ handler = "graph"
    /\ IsSome(result) /\ Unwrap(result).ok
    /\ Len(plots) = 2
    /\ plots[1].meta # plots[2].meta
    /\ answered[1].type = "matrix" /\ answered[2].type = "vector"
    /\ sent_at[1] < now
    /\ Unwrap(result).val[1].variant = "Series"
    /\ Unwrap(result).val[2].variant = "Scalar"

\* the answer the backend gave to the i-th call was a failure
IsFailure(a) == "err" \in DOMAIN a

\* C11: a panel one of whose sub-plot calls fails returns an error and no
\* result list at all, and the error is that of the first sub-plot, in
\* declaration order, whose call failed; no later sub-plot is queried.
C11_FailureAbortsPanel ==
    (handler = "graph" /\ pc = "done") =>
      LET r == Unwrap(result)
          k == Len(data) + 1
      IN /\ r.ok =>
              /\ Len(r.val) = Len(plots)
              /\ (\A i \in 1..Len(answered) : ~IsFailure(answered[i]))
              /\ (\A p \in 1..Len(plots) : ClientTryFrom(plots[p].source))
         /\ ~r.ok =>
              /\ DOMAIN r = { "ok", "err" }
              /\ k <= Len(plots)
              /\ (\A j \in 1..(k - 1) :
                    ClientTryFrom(plots[j].source) /\ ~IsFailure(answered[j]))
              /\ IF ClientTryFrom(plots[k].source)
                 THEN /\ Len(sent) = k /\ Len(answered) = k
                      /\ answered[k] = Err(r.err)
                 ELSE /\ Len(sent) = k - 1 /\ Len(answered) = k - 1
                      /\ r.err = "invalid source"

\* the second of two sub-plots fails after the first was answered
C11_Witness ==
    /\ handler = "graph" /\ pc = "done"
    /\ Len(plots) = 2
    /\ Len(data) = 1
    /\ Len(answered) = 2
    /\ ~IsFailure(answered[1])
    /\ answered[2] = Err("http 500")
    /\ result = Some(Err("http 500"))

(***************************************************************************)
(* Properties of the normalizers                                           *)
(***************************************************************************)
\* C12: prom_to_samples on a matrix of N label sets gives a Series of N
\* entries in payload order, the i-th with the i-th label set and as many
\* DataPoints as the i-th entry has samples, in their order, each with its
\* timestamp and value; nothing is dropped, repeated, merged or sorted.
C12_MatrixKeepsEverySample ==
    (nm_fn = "prom" /\ nm_pc = "returned" /\ nm_in.type = "matrix") =>
      LET out == Unwrap(nm_out)
      IN /\ out.variant = "Series"
         /\ Len(out.items) = Len(nm_in.result)
         /\ \A i \in 1..Len(nm_in.result) :
              LET rv == nm_in.result[i]
                  points == out.items[i][3]
              IN /\ out.items[i][1] = rv.metric
                 /\ Len(points) = Len(rv.samples)
                 /\ \A j \in 1..Len(rv.samples) :
                      /\ points[j].timestamp = rv.samples[j].timestamp
                      /\ points[j].value = rv.samples[j].value

\* a matrix that repeats a label set, its samples out of order and repeated
C12_Witness ==
    /\ nm_fn = "prom" /\ nm_pc = "returned"
    /\ nm_in = [type |-> "matrix",
                result |-> << [metric |-> Labels("a"),
                               samples |-> << Sample(2, 20), Sample(1, 10) >>],
                              [metric |-> Labels("a"),
                               samples |-> << Sample(1, 10), Sample(1, 10) >>] >>]
    /\ Len(Unwrap(nm_out).items) = 2
    /\ Unwrap(nm_out).items[1][3] = << Sample(2, 20), Sample(1, 10) >>
    /\ Unwrap(nm_out).items[2][3] = << Sample(1, 10), Sample(1, 10) >>

\* C13: the variant prom_query_data gives for a sub-plot follows the shape
\* of the payload alone, whatever the panel's query kind: matrix gives
\* Series, vector gives Scalar with one sample per label set, scalar gives
\* Scalar with one entry whose label set is empty.
C13_VariantFollowsPayload ==
    (handler = "graph") =>
      \A i \in 1..Len(data) :
        LET d == answered[i]
            out == data[i]
        IN /\ d.type = "matrix" => out.variant = "Series"
           /\ d.type = "vector" =>
                /\ out.variant = "Scalar"
                /\ Len(out.items) = Len(d.result)
                /\ \A k \in 1..Len(d.result) :
                     /\ out.items[k][1] = d.result[k].metric
                     /\ out.items[k][3] = DataPoint(d.result[k].sample)
           /\ d.type = "scalar" =>
                /\ out.variant = "Scalar"
                /\ Len(out.items) = 1
                /\ DOMAIN out.items[1][1] = { }
                /\ out.items[1][3] = DataPoint(d.sample)

\* a Range panel answered with a vector and then with a scalar returns two
\* Scalar results
C13_Witness ==
    /\ handler = "graph" /\ query_type = "Range"
    /\ IsSome(result) /\ Unwrap(result).ok
    /\ Len(data) = 2
    /\ answered[1].type = "vector" /\ answered[2].type = "scalar"
    /\ Unwrap(result).val[1].variant = "Scalar"
    /\ Len(Unwrap(result).val[1].items) = 2
    /\ Unwrap(result).val[2].variant = "Scalar"

\* the entry carries the field the result type asks for
HasRequiredField(d, r) ==
    IF d.result_type = "vector" THEN IsSome(r.value) ELSE IsSome(r.values)

\* the text of the lines of an entry of the response
EntryLines(d, r) ==
    IF d.result_type = "vector"
    THEN << Unwrap(r.value)[2] >>
    ELSE [j \in 1..Len(Unwrap(r.values)) |-> Unwrap(r.values)[j][2]]

\* the text of the lines of an entry of the result
ItemLines(out, item) ==
    IF out.variant = "StreamInstant"
    THEN << item[2].line >>
    ELSE [j \in 1..Len(item[2]) |-> item[2][j].line]

\* the entries of the result are entries of the response, in its order
InResponseOrder(d, out) ==
    \E f \in [1..Len(out.items) -> 1..Len(d.result)] :
      /\ \A a, b \in 1..Len(out.items) : a < b => f[a] < f[b]
      /\ \A a \in 1..Len(out.items) :
           /\ HasRequiredField(d, d.result[f[a]])
           /\ out.items[a][1] = d.result[f[a]].labels
           /\ ItemLines(out, out.items[a]) = EntryLines(d, d.result[f[a]])

\* C14: what loki_to_sample returns is StreamInstant exactly when the result
\* type is vector and Stream exactly when it is matrix or streams, and its
\* entries are entries of the response in the response's order.
C14_LokiVariantFollowsResultType ==
    (nm_fn = "loki" /\ nm_pc = "returned") =>
      LET out == Unwrap(nm_out)
      IN /\ out.variant = "StreamInstant" <=> nm_in.result_type = "vector"
         /\ out.variant = "Stream" <=> nm_in.result_type \in { "matrix", "streams" }
         /\ InResponseOrder(nm_in, out)

\* a streams response of two entries with lines
C14_Witness ==
    /\ nm_fn = "loki" /\ nm_pc = "returned"
    /\ nm_in.result_type = "streams"
    /\ Len(nm_in.result) = 2
    /\ nm_in.result[1].labels # nm_in.result[2].labels
    /\ Unwrap(nm_out).variant = "Stream"
    /\ Len(Unwrap(nm_out).items) = 2
    /\ Len(Unwrap(nm_out).items[1][2]) = 1

\* the entries of the response that carry the required field, in order
WithRequiredField(d) == SelectSeq(d.result, LAMBDA r : HasRequiredField(d, r))

\* C15: on a response some of whose entries lack the required field
\* loki_to_sample does not fail, and returns exactly the entries that carry
\* the field, in their order.
C15_EntriesWithoutFieldOmitted ==
    (/\ nm_fn = "loki" /\ nm_pc # "ready"
     /\ \E i \in 1..Len(nm_in.result) : ~HasRequiredField(nm_in, nm_in.result[i])) =>
      /\ nm_pc = "returned"
      /\ LET out == Unwrap(nm_out)
             have == WithRequiredField(nm_in)
         IN /\ Len(out.items) = Len(have)
            /\ \A i \in 1..Len(have) :
                 /\ out.items[i][1] = have[i].labels
                 /\ ItemLines(out, out.items[i]) = EntryLines(nm_in, have[i])

\* the timestamps of the lines of an entry of the result
ItemTimestamps(out, item) ==
    IF out.variant = "StreamInstant"
    THEN << item[2].timestamp >>
    ELSE [j \in 1..Len(item[2]) |-> item[2][j].timestamp]

\* the timestamps the lines of an entry should get: the number, or 0
EntryTimestamps(d, r) ==
    LET ts(pair) == IF IsSome(parse_f64(pair[1])) THEN Unwrap(parse_f64(pair[1])) ELSE 0
    IN IF d.result_type = "vector"
       THEN << ts(Unwrap(r.value)) >>
       ELSE [j \in 1..Len(Unwrap(r.values)) |-> ts(Unwrap(r.values)[j])]

\* C16: loki_to_sample always returns; a line whose timestamp is no number
\* is kept, with timestamp 0.
C16_BadTimestampBecomesZero ==
    (nm_fn = "loki" /\ nm_pc # "ready") =>
      /\ nm_pc = "returned"
      /\ LET out == Unwrap(nm_out)
             have == WithRequiredField(nm_in)
         IN /\ Len(out.items) = Len(have)
            /\ \A i \in 1..Len(have) :
                 /\ ItemLines(out, out.items[i]) = EntryLines(nm_in, have[i])
                 /\ ItemTimestamps(out, out.items[i]) = EntryTimestamps(nm_in, have[i])

\* C17: logsql_to_sample gives StreamInstant with one (label set, LogLine)
\* pair per record, in the order of the records; the line is the record's
\* _msg, and a _time that is no timestamp gives timestamp 0, the record kept.
C17_OnePairPerRecord ==
    (nm_fn = "logsql" /\ nm_pc = "returned") =>
      LET out == Unwrap(nm_out)
      IN /\ out.variant = "StreamInstant"
         /\ Len(out.items) = Len(nm_in)
         /\ \A i \in 1..Len(nm_in) :
              /\ out.items[i][2].line = nm_in[i].msg
              /\ out.items[i][1]["stream"] \in { nm_in[i].stream, "other" }
              /\ parse_from_rfc3339(nm_in[i].time) = None =>
                   out.items[i][2].timestamp = << 0, 0 >>
              /\ nm_in[i].time = "1970-01-01T00:15:50.500Z" =>
                   out.items[i][2].timestamp = << 950, 500000000 >>

\* a record with a timestamp followed by one whose _time is none
C17_Witness ==
    /\ nm_fn = "logsql" /\ nm_pc = "returned"
    /\ Len(nm_in) = 2
    /\ nm_in[1].time = "1970-01-01T00:15:50.500Z" /\ nm_in[1].msg = "one"
    /\ nm_in[2].time = "soon" /\ nm_in[2].msg = "two"
    /\ Len(Unwrap(nm_out).items) = 2
    /\ Unwrap(nm_out).items[1][2].line = "one"
    /\ Unwrap(nm_out).items[2][2] = [timestamp |-> << 0, 0 >>, line |-> "two"]

(***************************************************************************)
(* Properties of LogsqlConn::get_results                                   *)
(***************************************************************************)
\* the line is not blank and is a LogsQL record
IsRecordLine(line) == line \notin { "", "   " } /\ LogsqlFromStr(line) # None

\* C18: whatever the lines of the body, get_results returns Ok with the
\* records of the lines that are not blank and parse, in the order of the
\* body; a line that does not parse is skipped, also when none parses.
C18_BadLinesSkipped ==
    (handler = "logsql" /\ pc = "done" /\ ~IsFailure(answered[1])) =>
      LET lines == SelectSeq(answered[1].text, IsRecordLine)
      IN /\ IsSome(result) /\ Unwrap(result).ok
         /\ Len(Unwrap(result).val) = Len(lines)
         /\ \A i \in 1..Len(lines) :
              Unwrap(result).val[i] = Unwrap(LogsqlFromStr(lines[i]))

\* a body of a record, a blank line, a line that is no JSON and a record
C18_Witness ==
    /\ handler = "logsql" /\ pc = "done" /\ ~IsFailure(answered[1])
    /\ Len(answered[1].text) = 4
    /\ LogsqlFromStr(answered[1].text[3]) = None
    /\ Unwrap(result).ok
    /\ Len(Unwrap(result).val) = 2
    /\ Unwrap(result).val[1].msg = "one"
    /\ Unwrap(result).val[2].msg = "two"

(***************************************************************************)
(* Properties of the requests                                              *)
(***************************************************************************)
\* C19: a Scalar query whose connector has a span is evaluated at the end of
\* that span: the metrics instant query and the Loki scalar query carry the
\* end as their evaluation time.
C19_ScalarEvaluatedAtEnd ==
    (query_type = "Scalar" /\ handler \in { "graph", "log" }) =>
      \A i \in 1..Len(sent) :
        IsSome(conns[i].span) =>
          IF handler = "graph"
          THEN /\ "time" \in DOMAIN sent[i]
               /\ sent[i].time = timestamp(Unwrap(conns[i].span).end)
          ELSE /\ IsSome(sent[i].range)
               /\ Unwrap(sent[i].range).end = timestamp(Unwrap(conns[i].span).end)

\* C20: the Loki request goes to the scalar path for Scalar and to the range
\* path for Range, carries end, since and step exactly when the kind is
\* Range, and carries the limit exactly when the stream sets one, unchanged.
C20_LokiRequestParameters ==
    (handler = "log" /\ Len(sent) = 1) =>
      /\ sent[1].url = << LogStream.source,
                          IF query_type = "Scalar" THEN "/loki/api/v1/query"
                          ELSE "/loki/api/v1/query_range" >>
      /\ IsSome(sent[1].range) <=> query_type = "Range"
      /\ IsSome(sent[1].range) => DOMAIN Unwrap(sent[1].range) = { "end", "since", "step" }
      /\ sent[1].limit = limit

\* a Scalar stream with a limit and a span
C20_Witness ==
    /\ handler = "log" /\ Len(sent) = 1
    /\ query_type = "Scalar"
    /\ limit = Some(100)
    /\ IsSome(conns[1].span)
    /\ sent[1].limit = Some(100)
    /\ sent[1].range = None
    /\ sent[1].url[2] = "/loki/api/v1/query"

(***************************************************************************)
(* Properties of the calls of a panel                                      *)
(***************************************************************************)
\* C23: a sub-plot causes at most one backend call, failed or not, and the
\* panel has no timeout: while a call is awaited the panel moves on only
\* when the backend answers; if it never does, prom_query_data returns
\* neither a result nor an error.
C23_NoRetryNoTimeout ==
    /\ [](handler = "graph" =>
            /\ Len(sent) <= Len(plots)
            /\ Len(sent) <= Len(data) + 1
            /\ pc = "graph_await" => result = None)
    /\ [][(handler = "graph" /\ pc = "graph_await") =>
            \/ pc' = "graph_await" /\ result' = None /\ sent' = sent
            \/ Len(answered') = Len(answered) + 1]_vars

\* the clock has run as far as it goes and the first call is still awaited
C23_Witness ==
    /\ handler = "graph" /\ pc = "graph_await"
    /\ Len(plots) = 2
    /\ Len(sent) = 1 /\ Len(answered) = 0
    /\ sent_at[1] = Now0
    /\ now = Now0 + MaxTicks * TickMs
    /\ result = None

\* C25: a Loki response that arrives and parses but whose status is not
\* "success" makes loki_query_data return an error; the task does not panic.
C25_NonSuccessStatusIsError ==
    (/\ handler = "log" /\ Len(answered) = 1
     /\ ~IsFailure(answered[1])
     /\ answered[1].status # "success") =>
      /\ pc = "done"
      /\ IsSome(result)
      /\ ~Unwrap(result).ok

\* C27: the calls of a panel are issued one at a time in declaration order:
\* at most one is outstanding, the call of a sub-plot is issued only after
\* the calls of all sub-plots before it have returned successfully, and
\* after a failure no further call is issued.
C27_OneCallAtATime ==
    /\ [](handler = "graph" =>
            /\ Len(answered) <= Len(sent)
            /\ Len(sent) <= Len(answered) + 1
            /\ \A i \in 1..Len(sent) :
                 /\ conns[i].source = plots[i].source
                 /\ conns[i].query = plots[i].query
                 /\ \E order \in Orders(KeysOf(conns[i].filters)) :
                      sent[i] = PromRequest(conns[i], sent_at[i], order)
                 /\ \A j \in 1..(i - 1) : j <= Len(answered) /\ ~IsFailure(answered[j]))
    /\ [][(handler = "graph" /\ \E i \in 1..Len(answered) : IsFailure(answered[i])) =>
            sent' = sent]_vars

\* the call of the second sub-plot is outstanding, issued after the first
\* was answered
C27_Witness ==
    /\ handler = "graph" /\ pc = "graph_await"
    /\ Len(plots) = 2
    /\ Len(sent) = 2 /\ Len(answered) = 1
    /\ ~IsFailure(answered[1])
    /\ sent_at[1] < sent_at[2]

(***************************************************************************)
(* Properties of the request's span parameters                             *)
(***************************************************************************)
\* the names of the span parameters
SpanParamNames == { "end", "duration", "step_duration" }

\* the candidate that wins when the request contributes none
WinnerWithoutRequest ==
    IF Parses(panel_span) THEN panel_span
    ELSE IF Parses(dash_span) THEN dash_span
    ELSE None

\* C24: the request contributes a span candidate exactly when end, duration
\* and step_duration are all present, made of their three values; when one
\* is missing the others are ignored: there is no candidate and every
\* connector's span is resolved from the panel's span, then the dashboard's.
C24_AllThreeParametersOrNone ==
    /\ IsSome(query_span) <=> SpanParamNames \subseteq DOMAIN query_params
    /\ IsSome(query_span) =>
         Unwrap(query_span) = GraphSpan(query_params["end"], query_params["duration"],
                                        query_params["step_duration"])
    /\ (Resolved /\ ~(SpanParamNames \subseteq DOMAIN query_params)) =>
         \A i \in 1..Len(conns) :
           IF WinnerWithoutRequest = None THEN conns[i].span = None
           ELSE LET w == Unwrap(WinnerWithoutRequest)
                IN conns[i].span =
                     Some([end |-> IF EndIsTimestamp(w)
                                   THEN Unwrap(parse_from_rfc3339(w.end))
                                   ELSE built_at[i],
                           duration |-> DurationMs(w),
                           step_seconds |-> num_seconds(StepMs(w))])

\* a request with duration and step_duration but no end, on a panel with a
\* span: the connector has the panel's span
C24_Witness ==
    /\ handler = "graph"
    /\ DOMAIN query_params = { "duration", "step_duration" }
    /\ query_span = None
    /\ IsSome(panel_span)
    /\ Len(conns) = 1
    /\ conns[1].span = Some([end |-> 950500, duration |-> 1500, step_seconds |-> 0])

(***************************************************************************)
(* Properties of main and validate                                         *)
(***************************************************************************)
\* --validate without --offline, on a configuration that could be read
OnlineValidation == main_pc # "off" /\ args_validate /\ ~args_offline /\ IsSome(config)

\* the process has ended with a failure: main returned Err or panicked
EndedInFailure == main_pc \in { "exit_err", "panicked" }

\* C21: in validate mode the queries of a dashboard run one after another,
\* its graphs in order and then its log streams in order; the first query
\* that fails ends the run: no later query is issued and the process ends
\* with a failure, not with the report of success.
C21_FirstFailureAbortsValidation ==
    OnlineValidation =>
      /\ Len(outcomes) <= Len(issued) /\ Len(issued) <= Len(outcomes) + 1
      /\ \A d \in 1..Len(Unwrap(config)) :
           /\ Len(IssuedFor(d)) <= Len(ValidateQueries(d))
           /\ \A k \in 1..Len(IssuedFor(d)) : IssuedFor(d)[k] = ValidateQueries(d)[k]
      /\ \A i \in 1..Len(outcomes) :
           outcomes[i] # "ok" =>
             /\ i = Len(outcomes)
             /\ Len(issued) = i
             /\ EndedInFailure
      /\ main_pc = "exit_ok" => \A i \in 1..Len(outcomes) : outcomes[i] = "ok"

\* the second of the three queries of a dashboard fails: the third is not run
C21_Witness ==
    /\ OnlineValidation
    /\ Len(Unwrap(config)) = 2
    /\ Len(ValidateQueries(1)) = 3
    /\ outcomes = << "ok", "err" >>
    /\ Len(issued) = 2
    /\ main_pc = "exit_err"

\* C22: a process started with --validate never binds the listener or
\* serves requests, with or without --offline, whatever the configuration
\* holds.
C22_ValidateNeverServes ==
    (main_pc # "off" /\ args_validate) => main_pc # "serving"

\* C26: an online validation run reports success only after the queries of
\* every dashboard of the configuration have run and succeeded.
C26_EveryDashboardValidated ==
    (OnlineValidation /\ main_pc = "exit_ok") =>
      \A d \in 1..Len(Unwrap(config)) :
        \A k \in 1..Len(ValidateQueries(d)) :
          \E i \in 1..Len(outcomes) :
            issued[i] = ValidateQueries(d)[k] /\ outcomes[i] = "ok"

====
